---- MODULE Spec2Model ----
(***************************************************************************)
(* Model of src/src/Def.h: the data classes of the multilateration         *)
(* pipeline (Station, Stations, PositionsList, Signal).                    *)
(*                                                                         *)
(* Numbers.  Every coordinate, time, range and delay of the model is an    *)
(* integer of magnitude below 2^31.  Such a value is exactly representable *)
(* both as double and as long double, and sums, differences and products   *)
(* of them that stay below 2^53 are computed exactly in either type, so    *)
(* the double <-> long double conversions of the code are exact on every   *)
(* value the model draws.  sqrt is kept exact by representing its result   *)
(* by its radicand (see sqrt below).                                       *)
(*                                                                         *)
(* Indexing.  C++ indices are 0-based, TLA+ sequences 1-based: at(v, i) is *)
(* v.at(i).                                                                *)
(***************************************************************************)
EXTENDS Integers, Sequences, FiniteSets

VARIABLES
    mPositions,       \* PositionsList::mPositions
    passed,           \* history: originating combination id of every candidate passed in
    cur,              \* the Station object the caller holds: <<>> or <<station>>
    mStations,        \* Stations::mStations
    mT,               \* Stations::mT: Indeterminate or <<time>>
    inserted,         \* history: the stations handed to mStations since the last clear()
    mSatId,           \* Signal::mSatId
    mTimestamp,       \* Signal::mTimestamp
    mGroundStations,  \* Signal::mGroundStations
    lastOp,           \* name of the operation performed last
    arg,              \* the timing argument of the operation performed last
    ret               \* what the operation performed last returned, printed or threw

vars == <<mPositions, passed, cur, mStations, mT, inserted,
          mSatId, mTimestamp, mGroundStations, lastOp, arg, ret>>

positionVars == <<mPositions, passed>>
stationVars  == <<cur, mStations, mT, inserted>>
signalVars   == <<mSatId, mTimestamp, mGroundStations>>

----------------------------------------------------------------------------
(* Bounds of the model *)

MaxPositions == 2   \* longest PositionsList explored
MaxBatch     == 2   \* longest vector / list handed to addPositions
MaxStations  == 2   \* longest Stations collection explored
MaxGround    == 2   \* most ground stations of one Signal

(* Program constants *)

SpeedOfLight == 299792458   \* clight [m/s]

(* Input domains *)

Points == { <<0, 0, 0>>, <<1, 2, 3>> }
Radii  == { 5 }
Times  == { 0, 1 }
SatIds == { 1 }
None   == "none"
\* A member that a constructor may leave unset holds <<v>> once it is set to
\* v, and Indeterminate until then.
Indeterminate == <<>>
Set(v) == <<v>>
ValueOf(m) == m[1]
IndeterminateValues == { -1, 0 }     \* what reading an unset member may yield
NaN    == "nan"
Void   == "void"
OutOfRange == "std::out_of_range"

at(v, i) == v[i + 1]

----------------------------------------------------------------------------
(* Combinations (spec.md 4.2): subsets of GroupSize station indices out of *)
(* NumStations, ranked lexicographically; the id is the rank.              *)

NumStations == 5
GroupSize   == 4

AllCombs ==
    { c \in [1..GroupSize -> 0..(NumStations - 1)] :
        \A k \in 1..(GroupSize - 1) : c[k] < c[k + 1] }

LexLess(c, d) ==
    \E k \in 1..GroupSize :
        /\ c[k] < d[k]
        /\ \A j \in 1..(k - 1) : c[j] = d[j]

CombId(c) == Cardinality({ d \in AllCombs : LexLess(d, c) })

CombSts == { c \in AllCombs : CombId(c) < 2 }
CombIds == { CombId(c) : c \in CombSts }

----------------------------------------------------------------------------
(* PositionsList.  A Position is std::array<long double, 5>:               *)
(* <<xs, ys, zs, rs, combination id>>.                                     *)

PositionValues ==
    { <<p[1], p[2], p[3], r, id>> : p \in Points, r \in Radii, id \in CombIds }

\* the coordinate vectors handed to addPosition: 2 to 5 elements
PosVecs ==
    { SubSeq(p, 1, n) : p \in PositionValues, n \in 2..5 }

addPositionFront(list, aPosition) == <<aPosition>> \o list

addPositionDedup(list, aPosition) ==
    IF \E i \in 1..Len(list) : list[i] = aPosition
    THEN list
    ELSE Append(list, aPosition)

\* void addPosition( Position aPosition )
addPosition(list, aPosition) == Append(list, aPosition)

\* void addPosition( std::vector< long double > aPosVec, std::vector< int > combSt )
\* combSt is not read by the body.  aPosVec.at(2) throws on a shorter vector.
addPositionVec(list, aPosVec, combSt) ==
    IF Len(aPosVec) = 5
    THEN Append(list, <<at(aPosVec, 0), at(aPosVec, 1), at(aPosVec, 2),
                        at(aPosVec, 3), at(aPosVec, 4)>>)
    ELSE IF Len(aPosVec) > 3
    THEN Append(list, <<at(aPosVec, 0), at(aPosVec, 1), at(aPosVec, 2),
                        at(aPosVec, 3), 0>>)
    ELSE Append(list, <<at(aPosVec, 0), at(aPosVec, 1), at(aPosVec, 2), 0, 0>>)

\* void addPositions( std::vector< Position > aPositions )
RECURSIVE addPositions(_, _)
addPositions(list, aPositions) ==
    IF aPositions = <<>>
    THEN list
    ELSE addPositions(Append(list, Head(aPositions)), Tail(aPositions))

\* Position getPosition( int aIndex ) const
getPosition(list, aIndex) == at(list, aIndex)

\* int size() const
size(list) == Len(list)

\* void addPositions( PositionsList aList ): loops i = 0 .. aList.size()-1
RECURSIVE addPositionsListFrom(_, _, _)
addPositionsListFrom(list, aList, i) ==
    IF i < size(aList)
    THEN addPositionsListFrom(Append(list, getPosition(aList, i)), aList, i + 1)
    ELSE list

addPositionsList(list, aList) == addPositionsListFrom(list, aList, 0)

getX(list, aIndex) == at(at(list, aIndex), 0)
getY(list, aIndex) == at(at(list, aIndex), 1)
getZ(list, aIndex) == at(at(list, aIndex), 2)
getR(list, aIndex) == at(at(list, aIndex), 3)
getCombId(list, aIndex) == at(at(list, aIndex), 4)

\* sqrt(v), v >= 0, kept exact: the non-negative real whose square is v
sqrt(v) == [sqrtOf |-> v]
Square(d) == d.sqrtOf

getDistanceYForZ(list, aIndexFirst, aIndexSecond) ==
    LET dx == getX(list, aIndexFirst) - getX(list, aIndexSecond)
        dy == getY(list, aIndexFirst) - getY(list, aIndexSecond)
        dz == getY(list, aIndexFirst) - getY(list, aIndexSecond)
    IN  sqrt(dx * dx + dy * dy + dz * dz)

\* long double getDistance( int aIndexFirst, int aIndexSecond )
getDistance(list, aIndexFirst, aIndexSecond) ==
    LET dx == getX(list, aIndexFirst) - getX(list, aIndexSecond)
        dy == getY(list, aIndexFirst) - getY(list, aIndexSecond)
        dz == getZ(list, aIndexFirst) - getZ(list, aIndexSecond)
    IN  sqrt(dx * dx + dy * dy + dz * dz)

\* void printPositions(): one line "calculated: x, y, z" per position
printPositions(list) ==
    [i \in 1..Len(list) |-> <<list[i][1], list[i][2], list[i][3]>>]

\* void printAveragePosition(): x += at(0)/positionsNb over the list; the
\* sum of the quotients is kept as <<sum of numerators, positionsNb>>
RECURSIVE SumAt(_, _)
SumAt(list, k) ==
    IF list = <<>> THEN 0 ELSE at(Head(list), k) + SumAt(Tail(list), k)

printAveragePosition(list) ==
    [sums |-> <<SumAt(list, 0), SumAt(list, 1), SumAt(list, 2)>>,
     positionsNb |-> Len(list)]

ValidIndex(list, i) == i >= 0 /\ i < Len(list)

\* the frame of an operation of PositionsList
PositionsOp(op, result) ==
    /\ lastOp' = op
    /\ arg' = None
    /\ ret' = result
    /\ UNCHANGED <<stationVars, signalVars>>

AddPosition ==
    \E aPosition \in PositionValues :
        /\ Len(mPositions) < MaxPositions
        /\ mPositions' = addPosition(mPositions, aPosition)
        /\ passed' = Append(passed, at(aPosition, 4))
        /\ PositionsOp("addPosition", Void)

\* The caller of the vector form puts the id of combSt in the fifth slot
\* when it passes five elements.
AddPositionVec ==
    \E aPosVec \in PosVecs, combSt \in CombSts :
        /\ Len(mPositions) < MaxPositions
        /\ Len(aPosVec) = 5 => at(aPosVec, 4) = CombId(combSt)
        /\ IF Len(aPosVec) < 3
           THEN /\ UNCHANGED positionVars
                /\ PositionsOp("addPositionVec", OutOfRange)
           ELSE /\ mPositions' = addPositionVec(mPositions, aPosVec, combSt)
                /\ passed' = Append(passed, CombId(combSt))
                /\ PositionsOp("addPositionVec", Void)

\* the vectors of n positions
Batch(n) == [1..n -> PositionValues]

CombIdsOf(batch) == [i \in 1..Len(batch) |-> at(batch[i], 4)]

AddPositions ==
    \E n \in 0..MaxBatch :
      /\ Len(mPositions) + n <= MaxPositions
      /\ \E aPositions \in Batch(n) :
        /\ mPositions' = addPositions(mPositions, aPositions)
        /\ passed' = passed \o CombIdsOf(aPositions)
        /\ PositionsOp("addPositions", Void)

AddPositionsList ==
    \E n \in 0..MaxBatch :
      /\ Len(mPositions) + n <= MaxPositions
      /\ \E aList \in Batch(n) :
        /\ mPositions' = addPositionsList(mPositions, aList)
        /\ passed' = passed \o CombIdsOf(aList)
        /\ PositionsOp("addPositionsList", Void)

GetPosition ==
    \E aIndex \in 0..MaxPositions :
        /\ UNCHANGED positionVars
        /\ PositionsOp("getPosition",
                       IF ValidIndex(mPositions, aIndex)
                       THEN getPosition(mPositions, aIndex) ELSE OutOfRange)

GetCoordinate ==
    \E aIndex \in 0..MaxPositions :
        /\ UNCHANGED positionVars
        /\ \/ PositionsOp("getX", IF ValidIndex(mPositions, aIndex)
                                  THEN getX(mPositions, aIndex) ELSE OutOfRange)
           \/ PositionsOp("getY", IF ValidIndex(mPositions, aIndex)
                                  THEN getY(mPositions, aIndex) ELSE OutOfRange)
           \/ PositionsOp("getZ", IF ValidIndex(mPositions, aIndex)
                                  THEN getZ(mPositions, aIndex) ELSE OutOfRange)
           \/ PositionsOp("getR", IF ValidIndex(mPositions, aIndex)
                                  THEN getR(mPositions, aIndex) ELSE OutOfRange)

GetCombId ==
    \E aIndex \in 0..MaxPositions :
        /\ UNCHANGED positionVars
        /\ PositionsOp("getCombId",
                       IF ValidIndex(mPositions, aIndex)
                       THEN getCombId(mPositions, aIndex) ELSE OutOfRange)

GetDistance ==
    \E aIndexFirst \in 0..MaxPositions, aIndexSecond \in 0..MaxPositions :
        /\ UNCHANGED positionVars
        /\ arg' = <<aIndexFirst, aIndexSecond>>
        /\ lastOp' = "getDistance"
        /\ ret' = IF ValidIndex(mPositions, aIndexFirst)
                     /\ ValidIndex(mPositions, aIndexSecond)
                  THEN getDistance(mPositions, aIndexFirst, aIndexSecond)
                  ELSE OutOfRange
        /\ UNCHANGED <<stationVars, signalVars>>

Size ==
    /\ UNCHANGED positionVars
    /\ PositionsOp("size", size(mPositions))

PrintPositions ==
    /\ UNCHANGED positionVars
    /\ PositionsOp("printPositions", printPositions(mPositions))

PrintAveragePosition ==
    /\ UNCHANGED positionVars
    /\ PositionsOp("printAveragePosition", printAveragePosition(mPositions))


----------------------------------------------------------------------------
(* Station.  A record of the members x, y, z, t, r, dt, delay.  The        *)
(* getters return the member as held: Indeterminate or <<value>>.          *)

\* Station( double ax, double ay, double az, long double at = 0 )
Station4(ax, ay, az, aT) ==
    [x |-> ax, y |-> ay, z |-> az, t |-> Set(aT),
     r |-> Indeterminate, dt |-> Indeterminate, delay |-> Indeterminate]

\* Station( double ax, double ay, double az, long double at0, long double aR,
\*          double aDelay=0 ): at0 is not stored
Station6(ax, ay, az, at0, aR, aDelay) ==
    [x |-> ax, y |-> ay, z |-> az, t |-> Indeterminate,
     r |-> Set(aR), dt |-> Indeterminate, delay |-> Set(aDelay)]

setRSwapped(st, aT0) ==
    LET clight == 299792458
        dt == aT0 - ValueOf(st.t)
    IN  [st EXCEPT !.dt = Set(dt), !.r = Set(dt * clight)]

\* void setR( long double aT0 )
setR(st, aT0) ==
    IF st.t = Indeterminate
    THEN [st EXCEPT !.dt = Indeterminate, !.r = Indeterminate]
    ELSE LET clight == 299792458
             dt == ValueOf(st.t) - aT0
         IN  [st EXCEPT !.dt = Set(dt), !.r = Set(dt * clight)]

\* double getR() const
StationGetR(st) == st.r

\* double getDelay() const
getDelay(st) == st.delay

\* std::vector< double > stationToVector()
stationToVector(st) == <<st.x, st.y, st.z, ValueOf(st.r)>>

----------------------------------------------------------------------------
(* Stations *)

addStationFront(list, aStation) == <<aStation>> \o list

\* void addStation( Station aStation )
addStation(list, aStation) == Append(list, aStation)

\* void addStation( double ax, double ay, double az, long double at0, long double aR )
addStation5(list, ax, ay, az, at0, aR) ==
    LET aStation == Station6(ax, ay, az, at0, aR, 0)
    IN  Append(list, aStation)

\* void addStations( double ax, double ay, double az, long double at )
addStations(list, ax, ay, az, aT) ==
    LET aStation == Station4(ax, ay, az, aT)
    IN  Append(list, aStation)

\* void setTime( long double aT )
setTime(aT) == aT

\* Station getStation( int iStationNb )
getStation(list, iStationNb) == at(list, iStationNb)

\* void clear()
clear(list) == <<>>

\* the loop of printDelayStats over the delays, from
\* minDelay = 100, maxDelay = 0, sumDelay = 0
RECURSIVE DelayLoop(_, _)
DelayLoop(delays, acc) ==
    IF delays = <<>>
    THEN acc
    ELSE LET current == Head(delays)
         IN  DelayLoop(Tail(delays),
                 [sumDelay |-> acc.sumDelay + current,
                  maxDelay |-> IF current > acc.maxDelay THEN current ELSE acc.maxDelay,
                  minDelay |-> IF current < acc.minDelay THEN current ELSE acc.minDelay])

\* what printDelayStats prints: the mean sumDelay/size() is kept as the
\* fraction <<sumDelay, size()>>; 0.0/0 is NaN
DelayStats(delays) ==
    LET acc == DelayLoop(delays, [minDelay |-> 100, maxDelay |-> 0, sumDelay |-> 0])
    IN  [mean |-> IF Len(delays) = 0 THEN NaN ELSE <<acc.sumDelay, Len(delays)>>,
         min  |-> acc.minDelay,
         max  |-> acc.maxDelay]

\* void Stations::printDelayStats( int aSatId, double aTimestamp )
StationsPrintDelayStats(delays) == DelayStats(delays)

\* the delays read from the stations, garbage[i] being what reading an
\* indeterminate delay of station i yields
DelaysRead(list, garbage) ==
    [i \in 1..Len(list) |->
        IF getDelay(list[i]) = Indeterminate
        THEN garbage[i] ELSE ValueOf(getDelay(list[i]))]

----------------------------------------------------------------------------
(* Signal.  A ground station is the tuple <<ax, ay, az, r, aDelay>>.       *)

\* void addGroundStation( double ax, double ay, double az, long double at0,
\*                        double adt, double aDelay=0 ): at0 is not read
addGroundStation(ground, ax, ay, az, at0, adt, aDelay) ==
    LET clight == 299792458
        r == clight * adt
    IN  Append(ground, <<ax, ay, az, r, aDelay>>)

convertClearing(ground, aStations, aTimestamp) ==
    [i \in 1..Len(ground) |->
        Station6(at(ground[i], 0), at(ground[i], 1), at(ground[i], 2),
                 aTimestamp, at(ground[i], 3), at(ground[i], 4))]

\* void convertStationToSignal( Stations& aStations ): the loop over
\* mGroundStations; the result is aStations.mStations
RECURSIVE convertStationToSignal(_, _, _)
convertStationToSignal(ground, aStations, aTimestamp) ==
    IF ground = <<>>
    THEN aStations
    ELSE LET it == Head(ground)
             lStation == Station6(at(it, 0), at(it, 1), at(it, 2),
                                  aTimestamp, at(it, 3), at(it, 4))
         IN  convertStationToSignal(Tail(ground),
                                    addStation(aStations, lStation), aTimestamp)

\* int getSize() const
getSize(ground) == Len(ground)

\* void Signal::printDelayStats()
SignalPrintDelayStats(ground) ==
    DelayStats([i \in 1..Len(ground) |-> at(ground[i], 4)])

----------------------------------------------------------------------------
(* Inputs of the station and signal operations *)

\* receptions: a station position and the time it received the signal
Receptions ==
    { [p |-> <<0, 0, 0>>, t |-> 1], [p |-> <<1, 2, 3>>, t |-> 0] }

\* observations of a Signal: a station position, the time difference adt
\* and the delay
Observations ==
    { [p |-> <<0, 0, 0>>, adt |-> 1, delay |-> 0],
      [p |-> <<1, 2, 3>>, adt |-> -1, delay |-> 101] }

\* what the caller handed over for a station (history): the position, and
\* the range and delay as <<value>>, or NotGiven
NotGiven == <<>>

Given(ax, ay, az, aR, aDelay) ==
    [x |-> ax, y |-> ay, z |-> az, r |-> aR, delay |-> aDelay]

GivenOf(st) == Given(st.x, st.y, st.z, st.r, st.delay)

StationOp(op, a, result) ==
    /\ lastOp' = op
    /\ arg' = a
    /\ ret' = result
    /\ UNCHANGED positionVars

\* Station lStation( ax, ay, az, at ) in the caller
NewStation ==
    \E o \in Receptions :
        /\ cur' = <<Station4(o.p[1], o.p[2], o.p[3], o.t)>>
        /\ UNCHANGED <<mStations, mT, inserted, signalVars>>
        /\ StationOp("Station", None, Void)

SetR ==
    \E aT0 \in Times :
        /\ cur # <<>>
        /\ cur' = <<setR(cur[1], aT0)>>
        /\ UNCHANGED <<mStations, mT, inserted, signalVars>>
        /\ StationOp("setR", aT0, Void)

\* getR() of the caller's station; an indeterminate r reads as anything
GetR ==
    /\ cur # <<>>
    /\ \E g \in IndeterminateValues :
          StationOp("getR", None,
                    IF StationGetR(cur[1]) = Indeterminate
                    THEN g ELSE ValueOf(StationGetR(cur[1])))
    /\ UNCHANGED <<stationVars, signalVars>>

StationToVector ==
    /\ cur # <<>>
    /\ StationGetR(cur[1]) # Indeterminate
    /\ StationOp("stationToVector", None, stationToVector(cur[1]))
    /\ UNCHANGED <<stationVars, signalVars>>

AddStation ==
    /\ cur # <<>>
    /\ Len(mStations) < MaxStations
    /\ mStations' = addStation(mStations, cur[1])
    /\ inserted' = Append(inserted, GivenOf(cur[1]))
    /\ UNCHANGED <<cur, mT, signalVars>>
    /\ StationOp("addStation", None, Void)

\* the caller hands over a range it resolved from a reception: never negative
AddStation5 ==
    \E o \in Receptions, at0 \in Times :
        /\ Len(mStations) < MaxStations
        /\ o.t - at0 >= 0
        /\ LET aR == (o.t - at0) * SpeedOfLight
           IN  /\ mStations' = addStation5(mStations, o.p[1], o.p[2], o.p[3], at0, aR)
               /\ inserted' = Append(inserted, Given(o.p[1], o.p[2], o.p[3], Set(aR), NotGiven))
        /\ UNCHANGED <<cur, mT, signalVars>>
        /\ StationOp("addStation5", None, Void)

AddStations ==
    \E o \in Receptions :
        /\ Len(mStations) < MaxStations
        /\ mStations' = addStations(mStations, o.p[1], o.p[2], o.p[3], o.t)
        /\ inserted' = Append(inserted, Given(o.p[1], o.p[2], o.p[3], NotGiven, NotGiven))
        /\ UNCHANGED <<cur, mT, signalVars>>
        /\ StationOp("addStations", None, Void)

SetTime ==
    \E aT \in Times :
        /\ mT' = Set(setTime(aT))
        /\ UNCHANGED <<cur, mStations, inserted, signalVars>>
        /\ StationOp("setTime", aT, Void)

GetStation ==
    \E iStationNb \in 0..MaxStations :
        /\ UNCHANGED <<stationVars, signalVars>>
        /\ StationOp("getStation", iStationNb,
                     IF ValidIndex(mStations, iStationNb)
                     THEN getStation(mStations, iStationNb) ELSE OutOfRange)

Clear ==
    /\ mStations' = clear(mStations)
    /\ inserted' = <<>>
    /\ UNCHANGED <<cur, mT, signalVars>>
    /\ StationOp("clear", None, Void)

PrintDelayStatsStations ==
    \E garbage \in [1..Len(mStations) -> IndeterminateValues] :
        /\ UNCHANGED <<stationVars, signalVars>>
        /\ StationOp("Stations::printDelayStats", None,
                     StationsPrintDelayStats(DelaysRead(mStations, garbage)))

\* Signal( int aSatId, long double aTimestamp ): the next epoch's Signal
NewSignal ==
    \E aSatId \in SatIds, aTimestamp \in Times :
        /\ mSatId' = aSatId
        /\ mTimestamp' = aTimestamp
        /\ mGroundStations' = <<>>
        /\ UNCHANGED stationVars
        /\ StationOp("Signal", None, Void)

AddGroundStation ==
    \E o \in Observations :
        /\ Len(mGroundStations) < MaxGround
        /\ mGroundStations' =
              addGroundStation(mGroundStations, o.p[1], o.p[2], o.p[3],
                               mTimestamp, o.adt, o.delay)
        /\ UNCHANGED <<mSatId, mTimestamp, stationVars>>
        /\ StationOp("addGroundStation", o.adt, Void)

ConvertStationToSignal ==
    /\ Len(mStations) + Len(mGroundStations) <= MaxStations
    /\ mStations' = convertStationToSignal(mGroundStations, mStations, mTimestamp)
    /\ inserted' = inserted \o
          [i \in 1..Len(mGroundStations) |->
              Given(at(mGroundStations[i], 0), at(mGroundStations[i], 1),
                    at(mGroundStations[i], 2), Set(at(mGroundStations[i], 3)),
                    Set(at(mGroundStations[i], 4)))]
    /\ UNCHANGED <<cur, mT, signalVars>>
    /\ StationOp("convertStationToSignal", None, Void)

GetSize ==
    /\ UNCHANGED <<stationVars, signalVars>>
    /\ StationOp("getSize", None, getSize(mGroundStations))

PrintDelayStatsSignal ==
    /\ UNCHANGED <<stationVars, signalVars>>
    /\ StationOp("Signal::printDelayStats", None,
                 SignalPrintDelayStats(mGroundStations))

----------------------------------------------------------------------------
Init ==
    /\ mPositions = <<>>
    /\ passed = <<>>
    /\ cur = <<>>
    /\ mStations = <<>>
    /\ mT = Indeterminate
    /\ inserted = <<>>
    /\ mSatId = 1
    /\ mTimestamp = 0
    /\ mGroundStations = <<>>
    /\ lastOp = "construct"
    /\ arg = None
    /\ ret = Void

NextPositions ==
    \/ AddPosition
    \/ AddPositionVec
    \/ AddPositions
    \/ AddPositionsList
    \/ GetPosition
    \/ GetCoordinate
    \/ GetCombId
    \/ GetDistance
    \/ Size
    \/ PrintPositions
    \/ PrintAveragePosition

SpecPositions == Init /\ [][NextPositions]_vars

\* range resolution: a caller's Station and a Signal
NextRange ==
    \/ NewStation
    \/ SetR
    \/ GetR
    \/ NewSignal
    \/ AddGroundStation
    \/ GetSize

SpecRange == Init /\ [][NextRange]_vars

\* a caller's Station objects and a Stations collection
NextStations ==
    \/ NewStation
    \/ SetR
    \/ StationToVector
    \/ AddStation
    \/ AddStation5
    \/ AddStations
    \/ SetTime
    \/ GetStation
    \/ PrintDelayStatsStations
    \/ Clear

SpecStations == Init /\ [][NextStations]_vars

\* the epochs: Signals converted into a Stations collection
NextSignal ==
    \/ NewSignal
    \/ AddGroundStation
    \/ ConvertStationToSignal
    \/ AddStation5
    \/ AddStations
    \/ GetStation
    \/ Clear
    \/ GetSize
    \/ PrintDelayStatsSignal
    \/ PrintDelayStatsStations

SpecSignal == Init /\ [][NextSignal]_vars

----------------------------------------------------------------------------
(* Properties *)

\* C1: an observation whose time difference adt is negative makes range
\* resolution raise InvalidTiming, and no station with a negative range is
\* ever present in the Stations collection.
TimingRejection ==
    /\ (lastOp = "addGroundStation" /\ arg < 0) => ret = "InvalidTiming"
    /\ \A i \in 1..Len(mStations) :
          StationGetR(mStations[i]) # Indeterminate
              => ValueOf(StationGetR(mStations[i])) >= 0

\* C2: setR(t0) leaves range = (t - t0) * c and addGroundStation(adt) stores
\* range = adt * c, c = 299792458, so both give the same range whenever
\* adt = t - t0.
RangeResolution ==
    /\ lastOp = "setR" =>
          /\ cur[1].dt = Set(ValueOf(cur[1].t) - arg)
          /\ StationGetR(cur[1]) = Set((ValueOf(cur[1].t) - arg) * SpeedOfLight)
    /\ lastOp = "addGroundStation" =>
          LET g == mGroundStations[Len(mGroundStations)]
          IN  /\ at(g, 3) = arg * SpeedOfLight
              /\ (cur # <<>> /\ cur[1].dt = Set(arg))
                    => StationGetR(cur[1]) = Set(at(g, 3))

\* C2 witness: a ground station was just added with the same, non-zero,
\* time difference as the one setR resolved for the caller's station.
RangeResolutionWitness ==
    /\ lastOp = "addGroundStation"
    /\ arg # 0
    /\ cur # <<>>
    /\ cur[1].dt = Set(arg)

\* C3: every station getStation(i) returns carries a range that was set.
ResolvedRange ==
    \A i \in 0..(Len(mStations) - 1) :
        StationGetR(getStation(mStations, i)) # Indeterminate

RECURSIVE SumOf(_)
SumOf(seq) == IF seq = <<>> THEN 0 ELSE Head(seq) + SumOf(Tail(seq))

\* the true mean (as a fraction), minimum and maximum of a non-empty
\* sequence of delays
TrueStats(delays) ==
    LET vals == { delays[i] : i \in 1..Len(delays) }
    IN  [mean |-> <<SumOf(delays), Len(delays)>>,
         min  |-> CHOOSE m \in vals : \A v \in vals : m <= v,
         max  |-> CHOOSE m \in vals : \A v \in vals : m >= v]

\* C4: for a non-empty collection the printed mean, minimum and maximum are
\* the true mean, minimum and maximum of the delays, in
\* Signal::printDelayStats and in Stations::printDelayStats.
DelayStatsTrue ==
    /\ (lastOp = "Signal::printDelayStats" /\ mGroundStations # <<>>) =>
          ret = TrueStats([i \in 1..Len(mGroundStations) |-> at(mGroundStations[i], 4)])
    /\ ( /\ lastOp = "Stations::printDelayStats"
         /\ mStations # <<>>
         /\ \A i \in 1..Len(mStations) : getDelay(mStations[i]) # Indeterminate ) =>
          ret = TrueStats([i \in 1..Len(mStations) |-> ValueOf(getDelay(mStations[i]))])

\* C5: getCombId(i) is the id of the combination that produced candidate i.
CombinationTag ==
    \A i \in 0..(size(mPositions) - 1) :
        getCombId(mPositions, i) = at(passed, i)

\* the stations convertStationToSignal builds from a Signal's ground stations
StationsOf(ground, aTimestamp) ==
    [i \in 1..Len(ground) |->
        Station6(ground[i][1], ground[i][2], ground[i][3],
                 aTimestamp, ground[i][4], ground[i][5])]

\* C6 as stated: after convertStationToSignal(S), a collection S that only
\* conversions have filled holds exactly that Signal's ground stations
\* (size getSize()) and nothing converted earlier.
EpochIsolation ==
    ( /\ lastOp = "convertStationToSignal"
      /\ \A i \in 1..Len(inserted) : inserted[i].delay # NotGiven ) =>
        /\ Len(mStations) = getSize(mGroundStations)
        /\ mStations = StationsOf(mGroundStations, mTimestamp)

\* C6 as amended: convertStationToSignal(S) appends that Signal's ground
\* stations, in order, to what S held before the call.
ConvertAppends ==
    [][lastOp' = "convertStationToSignal" =>
          mStations' = mStations \o StationsOf(mGroundStations, mTimestamp)]_vars

\* C6 witness: a Signal with ground stations was converted into a collection
\* that already held stations.
ConvertAppendsWitness ==
    /\ lastOp = "convertStationToSignal"
    /\ Len(mGroundStations) > 0
    /\ Len(mStations) > Len(mGroundStations)

\* C7: every operation of PositionsList leaves every stored candidate at
\* its index with its five fields unchanged, and never shrinks the list.
AppendOnly ==
    [][/\ Len(mPositions') >= Len(mPositions)
       /\ \A i \in 1..Len(mPositions) : mPositions'[i] = mPositions[i]]_vars

\* C7 witness: a candidate was appended behind a different stored one.
AppendOnlyWitness ==
    /\ lastOp = "addPosition"
    /\ Len(mPositions) >= 2
    /\ mPositions[1] # mPositions[2]

\* C8: size() is the number of candidates passed in; nothing is dropped as
\* a duplicate.
NoDeduplication == size(mPositions) = Len(passed)

\* C8 witness: the same candidate, from the same combination, is stored twice.
NoDeduplicationWitness ==
    \E i, j \in 1..Len(mPositions) :
        /\ i < j
        /\ mPositions[i] = mPositions[j]
        /\ passed[i] = passed[j]

\* C9: getStation(i) is the i-th station inserted since the last clear(),
\* with the position, range and delay handed over.
InsertionOrder ==
    /\ Len(mStations) = Len(inserted)
    /\ \A i \in 0..(Len(inserted) - 1) :
          LET st == getStation(mStations, i)
              g  == at(inserted, i)
          IN  /\ st.x = g.x /\ st.y = g.y /\ st.z = g.z
              /\ g.r # NotGiven => StationGetR(st) = g.r
              /\ g.delay # NotGiven => getDelay(st) = g.delay

\* C9 witness: a Signal's two different ground stations were converted
\* into the collection.
InsertionOrderWitness ==
    /\ lastOp = "convertStationToSignal"
    /\ Len(mGroundStations) = 2
    /\ mGroundStations[1] # mGroundStations[2]
    /\ Len(mStations) >= 2

\* C10: the square of getDistance(i, j) is
\* (xi-xj)^2 + (yi-yj)^2 + (zi-zj)^2 of the stored candidates i and j; it
\* is the same for (j, i) and zero for i = j.
EuclideanDistance ==
    /\ (lastOp = "getDistance"
        /\ ValidIndex(mPositions, arg[1]) /\ ValidIndex(mPositions, arg[2])) =>
          LET a == mPositions[arg[1] + 1]
              b == mPositions[arg[2] + 1]
          IN  Square(ret) = (a[1] - b[1]) * (a[1] - b[1])
                          + (a[2] - b[2]) * (a[2] - b[2])
                          + (a[3] - b[3]) * (a[3] - b[3])
    /\ \A i, j \in 0..(Len(mPositions) - 1) :
          /\ getDistance(mPositions, i, j) = getDistance(mPositions, j, i)
          /\ i = j => Square(getDistance(mPositions, i, j)) = 0

\* C10 witness: the distance of two stored candidates at different points
\* was asked for.
EuclideanDistanceWitness ==
    /\ lastOp = "getDistance"
    /\ ValidIndex(mPositions, arg[1]) /\ ValidIndex(mPositions, arg[2])
    /\ Square(ret) > 0

====
